---- MODULE Spec2Model ----
(***************************************************************************)
(* A model of todo.py: the Task record, the TasksStore (load, save, list,  *)
(* sort, find_duplicate), uuid4, and main(), one run of main() being one   *)
(* load / operate / save cycle on the backing file current.json.           *)
(*                                                                         *)
(* Strings are sequences of one-character strings.  A datetime is a number *)
(* of clock ticks since the epoch, TicksPerSec ticks to the second; the    *)
(* ticks below a whole second stand for datetime's microseconds.           *)
(***************************************************************************)
EXTENDS Integers, Sequences, FiniteSets, Bags, TLC

VARIABLES file, tasks, clock, last, call

vars == <<file, tasks, clock, last, call>>

----------------------------------------------------------------------------
(* Bounds of the model. *)

\* Ticks of the clock per second (datetime resolution below the second).
TicksPerSec == 2
\* Number of runs of main() in one behaviour.
MaxRuns == 2
\* Longest string handed to Task.from_text in SpecFromText.
MaxTextLen == 4
\* Longest task list handed to sort() and list() in SpecSort and SpecList.
MaxTasks == 3
\* Largest priority of the tasks drawn in SpecSort.
MaxPriority == 1

\* Python's None, where the code stores it in an integer field (Task.order).
None == 0

Min(a, b) == IF a < b THEN a ELSE b
Max(a, b) == IF a > b THEN a ELSE b

----------------------------------------------------------------------------
(* Strings. *)

\* str.lower() on one character.
LowerChar(c) ==
    CASE c = "A" -> "a"
      [] c = "B" -> "b"
      [] c = "E" -> "e"
      [] c = "N" -> "n"
      [] c = "O" -> "o"
      [] c = "S" -> "s"
      [] c = "Y" -> "y"
      [] OTHER -> c

\* str.lower()
Lower(s) == [i \in 1..Len(s) |-> LowerChar(s[i])]

\* A slice bound as Python normalises it: a negative bound counts from the
\* end, and both are clamped to 0..len(s).
SliceBound(s, i) == IF i < 0 THEN Max(Len(s) + i, 0) ELSE Min(i, Len(s))

\* s[i:j]
PySlice(s, i, j) ==
    IF SliceBound(s, j) <= SliceBound(s, i) THEN <<>>
    ELSE SubSeq(s, SliceBound(s, i) + 1, SliceBound(s, j))

\* The 1-based place of s[i], or 0 where s[i] raises IndexError.
PyIndex(s, i) ==
    LET k == IF i < 0 THEN Len(s) + i ELSE i
    IN  IF k < 0 \/ k >= Len(s) THEN 0 ELSE k + 1

\* s.startswith(c) for a one-character c
StartsWith(s, c) == Len(s) > 0 /\ s[1] = c

\* sub in s
Contains(s, sub) ==
    \E k \in 0..(Len(s) - Len(sub)) : SubSeq(s, k + 1, k + Len(sub)) = sub

\* s.lstrip(chars)
RECURSIVE LStrip(_, _)
LStrip(s, chars) ==
    IF s # <<>> /\ Head(s) \in chars THEN LStrip(Tail(s), chars) ELSE s

\* The text the greedy group of re.findall('^([1!]+).*', s)[0] captures.
RECURSIVE LeadingRun(_, _)
LeadingRun(s, chars) ==
    IF s # <<>> /\ Head(s) \in chars
    THEN <<Head(s)>> \o LeadingRun(Tail(s), chars)
    ELSE <<>>

\* ' '.join(words) is modelled by handing main() the joined text.

----------------------------------------------------------------------------
(* uuid4 *)

HexDigits == <<"0", "1", "2", "3", "4", "5", "6", "7",
               "8", "9", "a", "b", "c", "d", "e", "f">>

\* '%x' % x for a byte x: no leading zero.
FormatHex(x) ==
    IF x < 16 THEN <<HexDigits[x + 1]>>
    ELSE <<HexDigits[(x \div 16) + 1], HexDigits[(x % 16) + 1]>>

\* ''.join('%x' % x for x in bytes)
RECURSIVE JoinHex(_)
JoinHex(bytes) ==
    IF bytes = <<>> THEN <<>> ELSE FormatHex(Head(bytes)) \o JoinHex(Tail(bytes))

\* uuid4(), given the value os.urandom(16) returned.
uuid4(urandom) ==
    LET b == JoinHex(urandom)
    IN  PySlice(b, 0, 8) \o <<"-">> \o PySlice(b, 8, 12) \o <<"-">>
        \o PySlice(b, 12, 16) \o <<"-">> \o PySlice(b, 16, 20) \o <<"-">>
        \o PySlice(b, 20, Len(b))

----------------------------------------------------------------------------
(* Dates. *)

Digits == <<"0", "1", "2", "3", "4", "5", "6", "7", "8", "9">>

IsDigit(c) == \E i \in 1..10 : Digits[i] = c

DigitValue(c) == (CHOOSE i \in 1..10 : Digits[i] = c) - 1

\* A strftime whose format does not pad: strptime rejects what it writes
\* for a number of seconds below ten.
strftime_unpadded(d) ==
    IF (d \div TicksPerSec) < 10 THEN <<Digits[(d \div TicksPerSec) + 1]>>
    ELSE <<Digits[(((d \div TicksPerSec) \div 10) % 10) + 1],
           Digits[((d \div TicksPerSec) % 10) + 1]>>

\* o.strftime(DATE_FORMAT): the whole seconds, in a fixed number of digits;
\* the part of the datetime below the second is not written.
strftime(d) ==
    <<Digits[(((d \div TicksPerSec) \div 10) % 10) + 1],
      Digits[((d \div TicksPerSec) % 10) + 1]>>

\* Whether datetime.strptime(s, DATE_FORMAT) raises ValueError.
ValueError(s) == ~(Len(s) = 2 /\ IsDigit(s[1]) /\ IsDigit(s[2]))

\* datetime.strptime(s, DATE_FORMAT), where it does not raise.
strptime(s) == (DigitValue(s[1]) * 10 + DigitValue(s[2])) * TicksPerSec

\* The default of kwargs.get('creation_date', ...): '1970-01-01T00:00:01'.
DEFAULT_CREATION_DATE == <<"0", "1">>

----------------------------------------------------------------------------
(* Task *)

\* dict.get(key) or default
GetOr(kwargs, key, default) ==
    IF key \in DOMAIN kwargs THEN kwargs[key] ELSE default

\* Task.__init__(**kwargs) at time now, os.urandom(16) returning urandom.
\* An absent key and a falsy value give the same field: '' for text,
\* False for done, 0 for priority; an absent or empty uuid gives a new one.
TaskInit(kwargs, now, urandom) ==
    LET ds == GetOr(kwargs, "creation_date", DEFAULT_CREATION_DATE)
    IN  [text          |-> GetOr(kwargs, "text", <<>>),
         creation_date |-> IF ValueError(ds) THEN now ELSE strptime(ds),
         done          |-> GetOr(kwargs, "done", FALSE),
         priority      |-> GetOr(kwargs, "priority", 0),
         uuid          |-> IF GetOr(kwargs, "uuid", <<>>) = <<>>
                           THEN uuid4(urandom)
                           ELSE kwargs["uuid"],
         order         |-> None]

\* The keyword arguments of Task(): none.
NoKwargs == [k \in {} |-> <<>>]

\* Task.from_text(text)
from_text(text, now, urandom) ==
    LET t == TaskInit(NoKwargs, now, urandom)
    IN  IF StartsWith(text, "!") \/ StartsWith(text, "1")
        THEN [t EXCEPT !.priority = Len(LeadingRun(text, {"1", "!"})),
                       !.text = LStrip(text, {"1", "!", " "})]
        ELSE [t EXCEPT !.priority = 0, !.text = text]

----------------------------------------------------------------------------
(* TasksStore *)

\* The backing file current.json: absent, not parseable as JSON, or a JSON
\* array of objects (data is what json.load returns for it).
NoFile == [state |-> "absent", data |-> <<>>]
CorruptFile == [state |-> "corrupt", data |-> <<>>]
JsonFile(data) == [state |-> "json", data |-> data]

\* The Task() calls of a load that reach uuid4(): a record without a uuid.
RECURSIVE MissingUuids(_)
MissingUuids(raw) ==
    IF raw = <<>> THEN 0
    ELSE (IF GetOr(Head(raw), "uuid", <<>>) = <<>> THEN 1 ELSE 0)
         + MissingUuids(Tail(raw))

\* TasksStore.load_from_file: urandoms are the values the successive calls
\* of os.urandom(16) return.
RECURSIVE LoadRecords(_, _, _, _)
LoadRecords(raw, i, now, urandoms) ==
    IF raw = <<>> THEN <<>>
    ELSE LET fresh == GetOr(Head(raw), "uuid", <<>>) = <<>>
             task == TaskInit(Head(raw), now,
                              IF fresh THEN Head(urandoms) ELSE <<>>)
         IN  <<[task EXCEPT !.order = i + 1]>>
             \o LoadRecords(Tail(raw), i + 1, now,
                            IF fresh THEN Tail(urandoms) ELSE urandoms)

load_from_file(f, now, urandoms) ==
    IF f.state = "json" THEN LoadRecords(f.data, 0, now, urandoms) ELSE <<>>

\* MyEncoder.default: a Task is written without its order, a datetime as
\* strftime(DATE_FORMAT).
MyEncoder(o) ==
    [text          |-> o.text,
     creation_date |-> strftime(o.creation_date),
     done          |-> o.done,
     priority      |-> o.priority,
     uuid          |-> o.uuid]

\* TasksStore.save: the file the store's tasks are dumped to.
save(ts) == JsonFile([i \in 1..Len(ts) |-> MyEncoder(ts[i])])

\* A list() that does not lower-case the filter word.
list_unlowered(ts, count, filter_word) ==
    LET matches(x) == Contains(Lower(x.text), filter_word)
        found == IF filter_word # <<>> THEN SelectSeq(ts, matches) ELSE ts
    IN  IF count >= 0 THEN PySlice(found, 0, count)
        ELSE PySlice(found, count, Len(found))

\* TasksStore.list
list(ts, count, filter_word) ==
    LET matches(x) == Contains(Lower(x.text), Lower(filter_word))
        found == IF filter_word # <<>> THEN SelectSeq(ts, matches) ELSE ts
    IN  IF count >= 0 THEN PySlice(found, 0, count)
        ELSE PySlice(found, count, Len(found))

\* A sort key without the creation date.
KeyLess_undated(a, b) ==
    \/ (a.done /\ ~b.done)
    \/ (a.done = b.done /\ a.priority < b.priority)

\* a < b for the sort key (not x.done, x.priority, x.creation_date)
KeyLess(a, b) ==
    \/ (a.done /\ ~b.done)
    \/ (a.done = b.done /\ a.priority < b.priority)
    \/ (a.done = b.done /\ a.priority = b.priority
        /\ a.creation_date < b.creation_date)

\* list.sort(key=..., reverse=True): descending and stable, a task goes
\* behind the tasks whose key is not less than its own.
RECURSIVE InsertSorted(_, _)
InsertSorted(s, t) ==
    IF s = <<>> THEN <<t>>
    ELSE IF KeyLess(Head(s), t) THEN <<t>> \o s
    ELSE <<Head(s)>> \o InsertSorted(Tail(s), t)

RECURSIVE SortedByKey(_)
SortedByKey(ts) ==
    IF ts = <<>> THEN <<>>
    ELSE InsertSorted(SortedByKey(SubSeq(ts, 1, Len(ts) - 1)), ts[Len(ts)])

\* An enumerate() loop that stores the 0-based index.
Renumber_from_zero(ts) == [i \in 1..Len(ts) |-> [ts[i] EXCEPT !.order = i - 1]]

\* for i, t in enumerate(self.tasks): t.order = i + 1
Renumber(ts) == [i \in 1..Len(ts) |-> [ts[i] EXCEPT !.order = i]]

\* TasksStore.sort
sort(ts) == Renumber(SortedByKey(ts))

\* TasksStore.find_duplicate: the first task of that text in a one-element
\* sequence, <<>> for None.
find_duplicate(ts, task) ==
    LET same(t) == t.text = task.text
        found == SelectSeq(ts, same)
    IN  IF found = <<>> THEN <<>> ELSE <<Head(found)>>

----------------------------------------------------------------------------
(* main *)

\* n = 10 where the first word after -l is no integer.
DefaultCount == 10

\* An optional command-line value: <<>> where the option is not given (the
\* attribute is None, or the default 0 of --priority) and <<v>> where it is.
\* The value of -d and -e is an int, so that 0 is falsy like None; the value
\* of -p is a string, truthy whatever number it spells.
IntGiven(opt) == opt # <<>> /\ opt[1] # 0
StrGiven(opt) == opt # <<>>

\* The replies the code accepts at the prompt, and the affirmative ones.
ValidReplies == {<<"y">>, <<"n">>, <<"y", "e", "s">>, <<"n", "o">>}
\* The second test of the reply made against the tuple of the first.
YesReplies_all == {<<"y">>, <<"n">>, <<"y", "e", "s">>, <<"n", "o">>}
YesReplies == {<<"y">>, <<"y", "e", "s">>}

\* while reply.lower() not in (...): reply = input(...)
\* replies are the lines the user types; <<r>> is the reply the loop ends
\* with, <<>> stands for input() raising EOFError.
RECURSIVE Ask(_)
Ask(replies) ==
    IF replies = <<>> THEN <<>>
    ELSE IF Lower(Head(replies)) \in ValidReplies THEN <<Head(replies)>>
    ELSE Ask(Tail(replies))

\* What a run of main() leaves: the store's tasks, the backing file, how
\* the run ended, the order printed by "Tasks created" (add) and the
\* number of tasks printed (list).
Result(ts, f, outcome, created, shown) ==
    [tasks |-> ts, file |-> f, outcome |-> outcome,
     created |-> created, shown |-> shown]

\* if args.list: ...
ListBranch(args, store, f) ==
    LET n == IF args.count # <<>> THEN args.count[1] ELSE DefaultCount
    IN  Result(store, f, "listed", 0, Len(list(store, n, args.text)))

\* elif args.done: ...
DoneBranch(args, store, f) ==
    LET k == PyIndex(store, args.done[1] - 1)
    IN  IF k = 0 THEN Result(store, f, "IndexError", 0, 0)
        ELSE LET ts == [store EXCEPT ![k].done = TRUE]
             IN  Result(ts, save(ts), "done", 0, 0)

\* elif args.edit: ...
EditBranch(args, store, f) ==
    LET k == PyIndex(store, args.edit[1] - 1)
        t1 == IF args.text # <<>>
              THEN [store EXCEPT ![k].text = args.text] ELSE store
        t2 == IF StrGiven(args.priority)
              THEN [t1 EXCEPT ![k].priority = args.priority[1]] ELSE t1
    IN  IF args.text = <<>> /\ ~StrGiven(args.priority)
        THEN Result(store, f, "nothing", 0, 0)
        ELSE IF k = 0 THEN Result(store, f, "IndexError", 0, 0)
        ELSE Result(t2, save(t2), "edited", 0, 0)

\* elif args.sort: ...
SortBranch(args, store, f) ==
    Result(sort(store), save(sort(store)), "sorted", 0, 0)

\* elif args.text: ...
AddBranch(args, store, f, now, urandom, replies) ==
    LET task == from_text(args.text, now, urandom)
        dup == find_duplicate(store, task)
        reply == Ask(replies)
        t1 == IF StrGiven(args.priority)
              THEN [task EXCEPT !.priority = args.priority[1]] ELSE task
        appended == Append(store, t1)
        placed == SortedByKey(appended)
        ts == sort(appended)
    IN  IF dup # <<>> /\ reply = <<>>
        THEN Result(store, f, "EOFError", 0, 0)
        ELSE IF dup # <<>> /\ Lower(reply[1]) \notin YesReplies
        THEN Result(store, f, "declined", 0, 0)
        ELSE Result(ts, save(ts), "created",
                    CHOOSE i \in 1..Len(placed) : placed[i].order = None, 0)

\* main(): the store is loaded, then the first branch whose option is
\* truthy runs.  urandoms are the values of the successive os.urandom(16)
\* calls, replies the lines typed at the duplicate prompt.
main(args, f, now, urandoms, replies) ==
    LET store == load_from_file(f, now, urandoms)
    IN  IF args.list THEN ListBranch(args, store, f)
        ELSE IF IntGiven(args.done) THEN DoneBranch(args, store, f)
        ELSE IF IntGiven(args.edit) THEN EditBranch(args, store, f)
        ELSE IF args.sort THEN SortBranch(args, store, f)
        ELSE IF args.text # <<>>
        THEN AddBranch(args, store, f, now, urandoms[Len(urandoms)], replies)
        ELSE Result(store, f, "nothing", 0, 0)

----------------------------------------------------------------------------
(* The command line, the clock and the random source. *)

\* Values of os.urandom(16): one of bytes 0x10 and above only, one that
\* starts with a byte below 0x10.
RandomSamples ==
    {[i \in 1..16 |-> 171], [i \in 1..16 |-> IF i = 1 THEN 5 ELSE 171]}

\* The clock of the first run: past the default creation date, and not on
\* a whole second.
StartClock == 2 * TicksPerSec + 1

\* A backing file of an earlier version or written by hand, in sort()
\* order: a full record of an open task with a priority, and a record
\* with only a text and an unparseable date.
OldFile ==
    JsonFile(<<[text |-> <<"B">>, creation_date |-> <<"0", "2">>,
                done |-> FALSE, priority |-> 1,
                uuid |-> uuid4([i \in 1..16 |-> 171])],
               [text |-> <<"a">>, creation_date |-> <<"?">>]>>)

\* argparse's namespace: count is the integer first word after -l (if any)
\* and text the other words joined by ' '.
Args(l, s, d, e, p, count, text) ==
    [list |-> l, sort |-> s, done |-> d, edit |-> e, priority |-> p,
     count |-> count, text |-> text]

\* The command lines tried.
Positions == -1..3
ListInputs == {<<>>, <<-1>>} \X {<<>>, <<"A">>}
EditInputs == {<< <<>>, <<>> >>, << <<>>, <<"b">> >>, << <<2>>, <<>> >>}
AddInputs ==
    {<< <<>>, <<"a">> >>, << <<>>, <<"!", "A">> >>,
     << <<2>>, <<"1", "!", " ", "1", "b">> >>}
FallThroughInputs == {<< <<>>, <<>> >>, << <<>>, <<"a">> >>}
\* The lines typed at the duplicate prompt: yes, an invalid line and then
\* no, and an invalid line and then the end of the input.
Replies ==
    {<< <<"Y">> >>, << <<"x">>, <<"N", "o">> >>, << <<"x">> >>}
NoReplies == << >>

\* Whether main() reaches Task.from_text, which calls os.urandom(16) once.
ReachesAdd(args) ==
    /\ ~args.list /\ ~IntGiven(args.done) /\ ~IntGiven(args.edit)
    /\ ~args.sort /\ args.text # <<>>

\* The values the os.urandom(16) calls of one run may return: one call for
\* each record loaded without a uuid, and one for the Task() of from_text.
Urandoms(args, f) ==
    [1..(MissingUuids(f.data) + (IF ReachesAdd(args) THEN 1 ELSE 0))
        -> RandomSamples]

NoCall == [fn |-> "none"]

Init ==
    /\ file \in {NoFile, CorruptFile, OldFile}
    /\ tasks = <<>>
    /\ clock = StartClock
    /\ last = [outcome |-> "none"]
    /\ call = NoCall

\* The program may be run: the model follows MaxRuns runs.
CanRun == call = NoCall /\ clock < StartClock + MaxRuns

\* One run of the program, from the load to the exit of the process.
Run(args, replies) ==
    /\ \E urandoms \in Urandoms(args, file) :
          LET r == main(args, file, clock, urandoms, replies)
          IN  /\ tasks' = r.tasks
              /\ file' = r.file
              /\ last' = [args |-> args, replies |-> replies, now |-> clock,
                          outcome |-> r.outcome, created |-> r.created,
                          shown |-> r.shown]
    /\ clock' = clock + 1
    /\ UNCHANGED call

\* todo -l [n] [words]
ListCmd ==
    \E in \in ListInputs :
        /\ CanRun
        /\ Run(Args(TRUE, FALSE, <<>>, <<>>, <<>>, in[1], in[2]), NoReplies)

\* todo -d p [-p priority] [words]
DoneCmd ==
    \E p \in Positions, in \in FallThroughInputs :
        /\ CanRun
        /\ (in[2] # <<>> => p = 0)
        /\ Run(Args(FALSE, FALSE, <<p>>, <<>>, in[1], <<>>, in[2]), NoReplies)

\* todo -e p [-p priority] [words]
EditCmd ==
    \E p \in Positions, in \in EditInputs :
        /\ CanRun
        /\ Run(Args(FALSE, FALSE, <<>>, <<p>>, in[1], <<>>, in[2]), NoReplies)

\* todo -s
SortCmd ==
    /\ CanRun
    /\ Run(Args(FALSE, TRUE, <<>>, <<>>, <<>>, <<>>, <<>>), NoReplies)

\* todo [-p priority] words
AddCmd ==
    \E in \in AddInputs, replies \in Replies :
        /\ CanRun
        /\ Run(Args(FALSE, FALSE, <<>>, <<>>, in[1], <<>>, in[2]), replies)

Next == ListCmd \/ DoneCmd \/ EditCmd \/ SortCmd \/ AddCmd

Spec == Init /\ [][Next]_vars

----------------------------------------------------------------------------
(* The functions on their own: an input is drawn, then the function is    *)
(* called on it once.                                                      *)

Pending(fn, arg) == [fn |-> fn, arg |-> arg, returned |-> FALSE, ret |-> <<>>]

Returned(fn) == call.fn = fn /\ call.returned

\* The state outside call, which the function specifications leave alone.
Idle ==
    /\ file = NoFile
    /\ tasks = <<>>
    /\ clock = StartClock
    /\ last = [outcome |-> "none"]

\* All strings of at most n characters of alphabet.
Strings(alphabet, n) == UNION {[1..k -> alphabet] : k \in 0..n}

\* uuid4: every byte is either below 0x10 or not.
ByteSamples == {9, 171}

InitUuid == Idle /\ call \in {Pending("uuid4", b) : b \in [1..16 -> ByteSamples]}

CallUuid4 ==
    /\ call.fn = "uuid4" /\ ~call.returned
    /\ call' = [call EXCEPT !.ret = uuid4(call.arg), !.returned = TRUE]
    /\ UNCHANGED <<file, tasks, clock, last>>

SpecUuid == InitUuid /\ [][CallUuid4]_vars

\* Task.from_text: the two markers, the blank and another character.
TextAlphabet == {"!", "1", " ", "a"}

InitFromText ==
    Idle /\ call \in {Pending("from_text", s) : s \in Strings(TextAlphabet, MaxTextLen)}

CallFromText ==
    /\ call.fn = "from_text" /\ ~call.returned
    /\ \E urandom \in RandomSamples :
          call' = [call EXCEPT !.ret = from_text(call.arg, clock, urandom),
                               !.returned = TRUE]
    /\ UNCHANGED <<file, tasks, clock, last>>

SpecFromText == InitFromText /\ [][CallFromText]_vars

\* The stores sort() and list() are called on: tasks as a load leaves them.
StoresOf(taskSet) ==
    {Renumber(ts) : ts \in UNION {[1..k -> taskSet] : k \in 0..MaxTasks}}

SortTasks ==
    [text : {<<"a">>}, creation_date : {TicksPerSec, 2 * TicksPerSec + 1},
     done : BOOLEAN, priority : 0..MaxPriority, uuid : {<<"0">>},
     order : {None}]

InitSort == Idle /\ call \in {Pending("sort", ts) : ts \in StoresOf(SortTasks)}

CallSort ==
    /\ call.fn = "sort" /\ ~call.returned
    /\ call' = [call EXCEPT !.ret = sort(call.arg), !.returned = TRUE]
    /\ UNCHANGED <<file, tasks, clock, last>>

SpecSort == InitSort /\ [][CallSort]_vars

ListTasks ==
    [text : {<<"a">>, <<"A", "b">>, <<"B">>}, creation_date : {TicksPerSec},
     done : {FALSE}, priority : {0}, uuid : {<<"0">>}, order : {None}]

ListFilters == {<<>>, <<"a">>, <<"B">>, <<"b", "a">>}

InitList ==
    /\ Idle
    /\ call \in {Pending("list", [tasks |-> ts, count |-> n, filter_word |-> w]) :
                    ts \in StoresOf(ListTasks),
                    n \in (0 - MaxTasks - 1)..(MaxTasks + 1),
                    w \in ListFilters}

CallList ==
    /\ call.fn = "list" /\ ~call.returned
    /\ call' = [call EXCEPT
                  !.ret = list(call.arg.tasks, call.arg.count, call.arg.filter_word),
                  !.returned = TRUE]
    /\ UNCHANGED <<file, tasks, clock, last>>

SpecList == InitList /\ [][CallList]_vars

----------------------------------------------------------------------------
(* Properties. *)

\* The number of times x occurs in s, for every x of s: s as a multiset.
BagOfSeq(s) ==
    [x \in {s[i] : i \in 1..Len(s)} |-> Cardinality({i \in 1..Len(s) : s[i] = x})]

\* A task without its order.
Fields(t) == <<t.text, t.done, t.priority, t.uuid, t.creation_date>>

FieldsOf(ts) == [i \in 1..Len(ts) |-> Fields(ts[i])]

\* C1: after sort() the tasks are a permutation of the tasks before; in
\* every adjacent pair (a, b), a is not done or b is done, a.priority >=
\* b.priority if both are equally done, and a.creation_date >=
\* b.creation_date if done and priority are both equal; and the task at
\* 0-based index i has order i + 1.
SortContract ==
    Returned("sort") =>
        LET before == call.arg
            after == call.ret
        IN  /\ Len(after) = Len(before)
            /\ BagOfSeq(FieldsOf(after)) = BagOfSeq(FieldsOf(before))
            /\ \A i \in 1..(Len(after) - 1) :
                  LET a == after[i]
                      b == after[i + 1]
                  IN  /\ ~a.done \/ b.done
                      /\ a.done = b.done => a.priority >= b.priority
                      /\ (a.done = b.done /\ a.priority = b.priority)
                            => a.creation_date >= b.creation_date
            /\ \A i \in 1..Len(after) : after[i].order = i

\* sort() moved a task, over a store with done and open tasks and with two
\* tasks that differ in the creation date only.
SortWitness ==
    /\ Returned("sort")
    /\ FieldsOf(call.ret) # FieldsOf(call.arg)
    /\ \E i, j \in 1..Len(call.arg) : call.arg[i].done /\ ~call.arg[j].done
    /\ \E i \in 1..(Len(call.ret) - 1) :
          /\ call.ret[i].done = call.ret[i + 1].done
          /\ call.ret[i].priority = call.ret[i + 1].priority
          /\ call.ret[i].creation_date > call.ret[i + 1].creation_date

\* Whether text contains word, letter case apart.
ContainsIgnoringCase(text, word) ==
    \E k \in 0..(Len(text) - Len(word)) :
        \A j \in 1..Len(word) : LowerChar(text[k + j]) = LowerChar(word[j])

\* The tasks of ts that list() is to choose from, in their order.
Filtered(ts, word) ==
    LET keep(x) == word = <<>> \/ ContainsIgnoringCase(x.text, word)
    IN  SelectSeq(ts, keep)

\* C2: list(count, filter_word) returns the first min(count, |F|) tasks of
\* F for count >= 0 and the last min(|count|, |F|) tasks of F for
\* count < 0, F being the tasks whose text contains filter_word, letter
\* case apart, in the store's order (all tasks without a filter word).
ListContract ==
    Returned("list") =>
        LET F == Filtered(call.arg.tasks, call.arg.filter_word)
            n == call.arg.count
            m == IF n >= 0 THEN Min(n, Len(F)) ELSE Min(0 - n, Len(F))
        IN  call.ret = IF n >= 0 THEN [i \in 1..m |-> F[i]]
                       ELSE [i \in 1..m |-> F[Len(F) - m + i]]

\* list() with a filter word that leaves some tasks out and matches in
\* another letter case, and a negative count smaller than what is left.
ListWitness ==
    /\ Returned("list")
    /\ call.arg.filter_word # <<>>
    /\ call.arg.count < 0
    /\ Len(call.ret) = 0 - call.arg.count
    /\ Len(call.ret) < Len(Filtered(call.arg.tasks, call.arg.filter_word))
    /\ Len(Filtered(call.arg.tasks, call.arg.filter_word)) < Len(call.arg.tasks)
    /\ \E i \in 1..Len(call.ret) :
          ~Contains(call.ret[i].text, call.arg.filter_word)

\* The length of the longest prefix of s made of characters of chars.
PrefixRun(s, chars) ==
    CHOOSE k \in 0..Len(s) :
        /\ \A i \in 1..k : s[i] \in chars
        /\ k < Len(s) => s[k + 1] \notin chars

\* C3: from_text(s) gives as priority the length of the leading run of '!'
\* and '1', and as text s without that run and the whitespace right after
\* it: a '!' or '1' after that point stays; s itself when the run is empty.
FromTextContract ==
    Returned("from_text") =>
        LET s == call.arg
            k == PrefixRun(s, {"!", "1"})
            rest == SubSeq(s, k + 1, Len(s))
            w == PrefixRun(rest, {" ", "\t"})
        IN  /\ call.ret.priority = k
            /\ call.ret.text = IF k = 0 THEN s
                               ELSE SubSeq(rest, w + 1, Len(rest))

\* Whether the last run of main() wrote the backing file.
Saved == last.outcome \in {"done", "edited", "sorted", "created"}

\* A datetime without its part below the second.
WholeSeconds(d) == d - (d % TicksPerSec)

\* C4: after save(), a new store loaded from the file has as many tasks,
\* with the same multiset of (text, done, priority, uuid) and, with each,
\* the creation date saved, which is the date in memory cut to the second.
RoundTrip ==
    Saved =>
        \A urandoms \in [1..MissingUuids(file.data) -> RandomSamples] :
            LET loaded == load_from_file(file, clock, urandoms)
                kept == [i \in 1..Len(tasks) |->
                            <<tasks[i].text, tasks[i].done, tasks[i].priority,
                              tasks[i].uuid, WholeSeconds(tasks[i].creation_date)>>]
            IN  /\ Len(loaded) = Len(tasks)
                /\ BagOfSeq(FieldsOf(loaded)) = BagOfSeq(kept)

\* A store was saved that holds a done and an open task, a task with a
\* priority, and a task whose creation date is not on a whole second.
RoundTripWitness ==
    /\ Saved
    /\ \E i, j, k, l \in 1..Len(tasks) :
          /\ tasks[i].done /\ ~tasks[j].done
          /\ tasks[k].priority > 0
          /\ tasks[l].creation_date % TicksPerSec # 0

\* Whether the records of a file are in sort() order as far as done and
\* priority go.
InSortOrder(data) ==
    \A i \in 1..(Len(data) - 1) :
        /\ ~data[i].done \/ data[i + 1].done
        /\ data[i].done = data[i + 1].done
              => data[i].priority >= data[i + 1].priority

\* The last run was todo words, todo -d p or todo -e p with p >= 1, and
\* it changed the store.
Mutated ==
    \/ /\ last.outcome = "created"
       /\ last.args.done = <<>> /\ last.args.edit = <<>>
    \/ last.outcome = "done" /\ last.args.done[1] >= 1
    \/ last.outcome = "edited" /\ last.args.edit[1] >= 1

\* C5: after an add, a mark-done or an edit, the tasks in the backing file
\* are in sort() order: no done task before an open one, and the priority
\* not increasing among the done and among the open tasks.
MutationsSaveSorted == Mutated => InSortOrder(file.data)

\* C6: a run with -d p or -e p where p is not in 1..N, N the number of
\* tasks loaded, ends in an IndexError and leaves the backing file as it
\* was.
OutOfRangeFails ==
    [][\A p \in Positions :
          ( /\ last'.args.done = <<p>> \/ last'.args.edit = <<p>>
            /\ p \notin 1..Len(file.data) )
          => (last'.outcome = "IndexError" /\ file' = file)]_vars

\* The reply the prompt loop ends with is a no (a yes): it is the first
\* valid line typed.
FinalReplyIn(replies, answers) ==
    \E k \in 1..Len(replies) :
        /\ Lower(replies[k]) \in answers
        /\ \A j \in 1..(k - 1) : Lower(replies[j]) \notin ValidReplies

\* C7: in the add flow, when a stored task has the text of the new task
\* and the final valid answer is negative, the run ends with the store and
\* the file as they were loaded; and a task is appended only when there is
\* no such task or the answer is affirmative.
DeclinedAddChangesNothing ==
    [][ReachesAdd(last'.args) =>
          LET new == from_text(last'.args.text, clock, CHOOSE u \in RandomSamples : TRUE)
              dup == \E i \in 1..Len(file.data) :
                        GetOr(file.data[i], "text", <<>>) = new.text
              no == FinalReplyIn(last'.replies, {<<"n">>, <<"n", "o">>})
              yes == FinalReplyIn(last'.replies, {<<"y">>, <<"y", "e", "s">>})
          IN  /\ (dup /\ no) =>
                    /\ file' = file
                    /\ \E us \in Urandoms(last'.args, file) :
                          tasks' = load_from_file(file, clock, us)
              /\ (Len(tasks') > Len(file.data) \/ file' # file)
                    => (~dup \/ yes)]_vars

\* An add of a text the store has was declined after an invalid answer.
DeclinedWitness ==
    /\ last.outcome = "declined"
    /\ Len(last.replies) = 2
    /\ Len(tasks) > 0

\* C8: a task added by todo words at time now has the creation date now.
CreatedNow ==
    (last.outcome = "created" /\ last.args.done = <<>> /\ last.args.edit = <<>>)
        => tasks[last.created].creation_date = last.now

\* The hex digits of a uuid, its hyphens left out.
HexOf(u) ==
    LET hex(c) == c # "-"
    IN  SelectSeq(u, hex)

\* C9: uuid4() returns 36 characters: 32 lowercase hex digits, two for
\* each byte, in groups of 8, 4, 4, 4 and 12 with a hyphen between.
Uuid4Canonical ==
    Returned("uuid4") =>
        LET u == call.ret
        IN  /\ Len(u) = 36
            /\ \A i \in 1..Len(u) :
                  IF i \in {9, 14, 19, 24} THEN u[i] = "-"
                  ELSE \E d \in 1..16 : HexDigits[d] = u[i]
            /\ Len(HexOf(u)) = 32
            /\ \A i \in 1..16 :
                  /\ HexOf(u)[2 * i - 1] = HexDigits[(call.arg[i] \div 16) + 1]
                  /\ HexOf(u)[2 * i] = HexDigits[(call.arg[i] % 16) + 1]

\* C10: at the end of every run of main() the task at 0-based index i has
\* order i + 1, and the position given to -d or -e within 1..N is the
\* order of the task marked done or edited.
OrderInvariant ==
    last.outcome # "none" =>
        /\ \A i \in 1..Len(tasks) : tasks[i].order = i
        /\ \A p \in 1..Len(tasks) :
              /\ (last.outcome = "done" /\ last.args.done = <<p>>)
                    => (tasks[p].done /\ tasks[p].order = p)
              /\ (last.outcome = "edited" /\ last.args.edit = <<p>>
                    /\ last.args.text # <<>>)
                    => (tasks[p].text = last.args.text /\ tasks[p].order = p)

\* An add placed the new task before tasks loaded earlier.
OrderWitness ==
    /\ last.outcome = "created"
    /\ Len(tasks) >= 3
    /\ last.created < Len(tasks)

====
